---- MODULE Spec2Model ----
(***************************************************************************)
(* Model of ChurnPredictionSystem (src/ml/linear/complete-churn-system.py). *)
(* State: the object's fields (preprocessor, model, feature_names,          *)
(* model_version), the artifact file written by save_model, the matrix and  *)
(* labels the caller holds from the last successful preprocess_data, and    *)
(* the outcome of the last call.  One action per public method.             *)
(*                                                                          *)
(* A table (DataFrame) is abstracted to what the code reads of it: the set  *)
(* of its columns, its row count, the number of rows with Churn = 'Yes',    *)
(* and, per categorical column, its distinct values in order of first       *)
(* appearance (the result of pandas' unique()).  A category value is an     *)
(* integer whose order is the lexical order of the string it stands for;    *)
(* 0 stands for NaN.                                                        *)
(***************************************************************************)
EXTENDS Integers, Sequences, FiniteSets, TLC

\* ------------------------------------------------------------ bounds
\* Category values are 1..MaxVal (and NaN).
MaxVal == 3
\* Row count of the large tables is MinRecords + ExtraRows.
ExtraRows == 100
\* The tables given to _validate_data hold MinRecords - RowSlack .. MinRecords + RowSlack
\* rows, 0..MaxMinority of them with the rarer label (or half of them).
RowSlack == 3
MaxMinority == 6
\* Rows labelled 'Yes' in the small and severely imbalanced table.
FewPositives == 2
\* The caller's small row subsets (splits) hold k rows of each label, k <= MaxSplitHalf.
MaxSplitHalf == 2
\* Distinct objects constructed in one run (each gets its own version tag).
MaxObjects == 2

\* ------------------------------------------------------------ program constants
MinRecords == 100
ImbalanceLowPct == 5
ImbalanceHighPct == 95
SmoteKNeighbors == 5
CvFolds == 5

\* ------------------------------------------------------------ configuration (__init__)
numeric_features == <<"tenure", "MonthlyCharges", "TotalCharges">>
categorical_features == <<"InternetService", "Contract", "PaymentMethod">>
binary_features == <<"gender", "Partner", "Dependents", "PhoneService",
                     "PaperlessBilling", "Churn">>

Range(s) == {s[i] : i \in 1..Len(s)}

NumCols == Range(numeric_features)
CatCols == Range(categorical_features)
BinCols == Range(binary_features)
AllCols == NumCols \cup CatCols \cup BinCols

\* NaN, and the token SimpleImputer(strategy='constant', fill_value='missing')
\* writes for it.  'missing' is lower case and sorts after the capitalised values.
NaN == 0
MissingTok == MaxVal + 1
RawVals == 0..MaxVal

\* A name with no value suffix carries NoSuffix.
NoSuffix == 0 - 1
Name(col, val) == [col |-> col, val |-> val]

\* None, for the three fields that start as None.
None == [kind |-> "None"]
IsNone(x) == x.kind = "None"

\* ------------------------------------------------------------ sequences
RECURSIVE SeqFilter(_, _)
SeqFilter(s, keep) ==
    IF s = <<>> THEN <<>>
    ELSE IF Head(s) \in keep THEN <<Head(s)>> \o SeqFilter(Tail(s), keep)
         ELSE SeqFilter(Tail(s), keep)

RECURSIVE SortedSeq(_)
SortedSeq(S) ==
    IF S = {} THEN <<>>
    ELSE LET m == CHOOSE x \in S : \A y \in S : x <= y
         IN <<m>> \o SortedSeq(S \ {m})

RECURSIVE Concat(_)
Concat(ss) == IF ss = <<>> THEN <<>> ELSE Head(ss) \o Concat(Tail(ss))

\* ------------------------------------------------------------ input tables
\* A training table: columns, distinct values per categorical column in order
\* of first appearance, row count, rows labelled Churn = 'Yes'.
BaseTable ==
    [cols |-> AllCols,
     uniq |-> [c \in CatCols |-> <<1, 2>>],
     rows |-> MinRecords,
     pos  |-> MinRecords \div 2]

\* The tables given to preprocess_data: the base table, or the base table with
\* the values of one categorical column, or its labels, or its columns changed.
OrderChoices == {<<1>>, <<2, 1>>, <<1, NaN>>}
LabelChoices ==
    {[rows |-> MinRecords - 1, pos |-> MinRecords \div 2],
     [rows |-> MinRecords, pos |-> FewPositives],
     [rows |-> MinRecords + ExtraRows, pos |-> SmoteKNeighbors + 1]}
ColChoices ==
    {AllCols \ {"Churn"}, AllCols \ {"tenure"}, AllCols \ {"Contract"},
     (AllCols \ BinCols) \cup {"Churn"}, AllCols \cup {"CustomerID"}}

Tables ==
    {BaseTable}
        \cup {[BaseTable EXCEPT !.uniq[c] = o] : c \in CatCols, o \in OrderChoices}
        \cup {[BaseTable EXCEPT !.rows = l.rows, !.pos = l.pos] : l \in LabelChoices}
        \cup {[BaseTable EXCEPT !.cols = cs] : cs \in ColChoices}

\* The few tables given to preprocess_data where the artifact file is modelled too.
StoreTables ==
    {BaseTable}
        \cup {[BaseTable EXCEPT !.rows = l.rows, !.pos = l.pos] : l \in LabelChoices}
        \cup {[BaseTable EXCEPT !.cols = AllCols \ {"Churn"}]}

\* The tables _validate_data is given on its own: every row count around the
\* minimum, few or many or half of the rows labelled 'Yes', with or without
\* a required column and the label column.
RowCounts == (MinRecords - RowSlack)..(MinRecords + RowSlack)
PosChoices(n) == (0..MaxMinority) \cup {n \div 2} \cup {n - k : k \in 0..MaxMinority}
ValidateTables ==
    UNION {{[BaseTable EXCEPT !.rows = n, !.pos = p, !.cols = cs] :
               p \in PosChoices(n), cs \in {AllCols} \cup ColChoices} : n \in RowCounts}

\* An inference table of one row: its columns and the row's categorical cells.
BaseRow == [cols |-> AllCols \ {"Churn"}, vals |-> [c \in CatCols |-> 1]]
RowChoicesX ==
    {[BaseRow EXCEPT !.vals[c] = v] : c \in CatCols, v \in RawVals}
        \cup {[BaseRow EXCEPT !.cols = @ \ {c}] : c \in {"Contract", "gender"}}
StoreRows == {BaseRow, [BaseRow EXCEPT !.vals["Contract"] = MaxVal]}

\* ------------------------------------------------------------ _validate_data
\* churn_rate < 0.05 or churn_rate > 0.95, churn_rate = pos / rows.
SevereImbalance(df) ==
    \/ df.pos * 100 < ImbalanceLowPct * df.rows
    \/ df.pos * 100 > ImbalanceHighPct * df.rows

RequiredColumns == NumCols \cup {c \in CatCols : c # "Churn"}

\* The minimum taken as exclusive.
BelowMinimum_inclusive(df) == df.rows <= MinRecords

\* len(df) < 100
BelowMinimum(df) == df.rows < MinRecords

_validate_data(df) ==
    IF RequiredColumns \ df.cols # {}
    THEN [outcome |-> "MissingColumns", warned |-> FALSE]
    ELSE IF BelowMinimum(df)
    THEN [outcome |-> "InsufficientData", warned |-> FALSE]
    ELSE [outcome |-> "ok",
          warned  |-> "Churn" \in df.cols /\ SevereImbalance(df)]

\* ------------------------------------------------------------ _create_feature_names
NamesOf(cols) == [i \in 1..Len(cols) |-> Name(cols[i], NoSuffix)]

\* f"{feature}_{val}" for val in df[feature].unique()[1:]
CategoryNames(df, feature) ==
    IF feature \in df.cols
    THEN LET rest == Tail(df.uniq[feature])
         IN [i \in 1..Len(rest) |-> Name(feature, rest[i])]
    ELSE <<>>

_create_feature_names(df) ==
    LET numeric_cols == NamesOf(numeric_features)
        categorical_cols ==
            Concat([i \in 1..Len(categorical_features) |->
                       CategoryNames(df, categorical_features[i])])
        binary_cols ==
            NamesOf(SeqFilter(binary_features, (BinCols \ {"Churn"}) \cap df.cols))
    IN numeric_cols \o categorical_cols \o binary_cols

\* ------------------------------------------------------------ the ColumnTransformer
\* SimpleImputer(strategy='constant', fill_value='missing') on one cell.
Impute(v) == IF v = NaN THEN MissingTok ELSE v

\* OneHotEncoder.fit: categories_ of a column are its distinct imputed values, sorted.
FitCategories(df, c) == SortedSeq({Impute(v) : v \in Range(df.uniq[c])})

Unfitted ==
    [kind |-> "ColumnTransformer", fitted |-> FALSE,
     categories |-> [c \in CatCols |-> <<>>]]

Fit(df) ==
    [kind |-> "ColumnTransformer", fitted |-> TRUE,
     categories |-> [c \in CatCols |-> FitCategories(df, c)]]

\* drop='first': one indicator per category but the first of categories_.
Indicators(pp, c) ==
    LET kept == Tail(pp.categories[c])
    IN [i \in 1..Len(kept) |-> Name(c, kept[i])]

\* What each column of the output matrix encodes: ('num', ...) then ('cat', ...);
\* the columns named in no transformer are dropped (remainder='drop').
OutColumns(pp) ==
    NamesOf(numeric_features)
        \o Concat([i \in 1..Len(categorical_features) |->
                      Indicators(pp, categorical_features[i])])

Width(pp) == Len(OutColumns(pp))

\* A scaled numeric cell (its value is not modelled).
ScaledCell == 0 - 1

\* preprocessor.transform on a one-row table.
Transform(pp, X) ==
    IF ~pp.fitted
    THEN [outcome |-> "NotFittedError", row |-> <<>>]
    ELSE IF (NumCols \cup CatCols) \ X.cols # {}
    THEN [outcome |-> "ColumnMismatch", row |-> <<>>]
    ELSE IF \E c \in CatCols : Impute(X.vals[c]) \notin Range(pp.categories[c])
    THEN [outcome |-> "UnknownCategory", row |-> <<>>]
    ELSE LET out == OutColumns(pp)
         IN [outcome |-> "ok",
             row |-> [i \in 1..Len(out) |->
                         IF out[i].val = NoSuffix THEN ScaledCell
                         ELSE IF Impute(X.vals[out[i].col]) = out[i].val THEN 1 ELSE 0]]

\* ------------------------------------------------------------ matrices and labels
\* A transformed matrix with its labels: column count, rows, rows labelled 1,
\* and how many of the rows are synthetic.
Data(width, rows, pos) == [width |-> width, rows |-> rows, pos |-> pos, synth |-> 0]
NoData == [width |-> 0, rows |-> 0, pos |-> 0, synth |-> 0]

Minority(d) == IF d.pos <= d.rows - d.pos THEN d.pos ELSE d.rows - d.pos
Majority(d) == IF d.pos <= d.rows - d.pos THEN d.rows - d.pos ELSE d.pos

\* What the caller may pass on of the matrix it holds: all of it, or a small
\* subset of its rows with as many rows of each label.
Splits(d) ==
    {d} \cup {[d EXCEPT !.rows = 2 * k, !.pos = k] :
                 k \in {j \in 1..MaxSplitHalf : j <= Minority(d)}}

\* SMOTE(random_state).fit_resample: every class but the largest is filled up to
\* the size of the largest with synthetic rows, each built from a row of the class
\* and one of its k_neighbors nearest rows of the class.
SmoteNeedsNeighbors(d) == Minority(d) < SmoteKNeighbors + 1

fit_resample(d) ==
    IF Minority(d) = 0
    THEN [outcome |-> "OneClass", data |-> NoData]
    ELSE IF Minority(d) = Majority(d)
    THEN [outcome |-> "ok", data |-> d]
    ELSE IF SmoteNeedsNeighbors(d)
    THEN [outcome |-> "TooFewNeighbors", data |-> NoData]
    ELSE [outcome |-> "ok",
          data |-> [d EXCEPT !.rows = 2 * Majority(d), !.pos = Majority(d),
                             !.synth = Majority(d) - Minority(d)]]

\* cross_val_score(model, X, y, cv=5): stratified folds; every row of X is in the
\* scoring part of exactly one fold.  It raises when no class has cv rows.
cross_val_score(d) ==
    IF d.rows < CvFolds \/ Majority(d) < CvFolds
    THEN [outcome |-> "CvError", scored |-> NoData]
    ELSE [outcome |-> "ok", scored |-> d]

\* ------------------------------------------------------------ the classifier
NewClassifier ==
    [kind |-> "RandomForestClassifier", fitted |-> FALSE, nfeat |-> 0, train |-> NoData]

\* model.fit(X, y)
FitClassifier(m, d) == [m EXCEPT !.fitted = TRUE, !.nfeat = d.width, !.train = d]

NoValue == [model |-> None, row |-> <<>>]

\* model.predict_proba(row)[:, 1]: a function of the fitted model and the row.
predict_proba(m, row) ==
    IF ~m.fitted THEN [outcome |-> "NotFittedError", value |-> NoValue]
    ELSE IF Len(row) # m.nfeat THEN [outcome |-> "FeatureMismatch", value |-> NoValue]
    ELSE [outcome |-> "ok", value |-> [model |-> m, row |-> row]]

\* ------------------------------------------------------------ predict
NotFittedGuard(m, pp) == IsNone(m) \/ IsNone(pp)

predict(m, pp, X) ==
    IF NotFittedGuard(m, pp)
    THEN [outcome |-> "NotFitted", value |-> NoValue]
    ELSE LET X_processed == Transform(pp, X)
         IN IF X_processed.outcome # "ok"
            THEN [outcome |-> X_processed.outcome, value |-> NoValue]
            ELSE predict_proba(m, X_processed.row)

\* ------------------------------------------------------------ the artifact file
\* joblib.dump writes the dict as its items in insertion order; joblib.load
\* rebuilds the dict from the items.
Fields == <<"model", "preprocessor", "feature_names", "version", "timestamp">>
NoFile == <<>>

Dump(info) == [i \in 1..Len(Fields) |-> <<Fields[i], info[Fields[i]]>>]

Keys(blob) == {blob[i][1] : i \in 1..Len(blob)}
Load(blob) ==
    [k \in Keys(blob) |-> blob[CHOOSE i \in 1..Len(blob) : blob[i][1] = k][2]]

\* The file with only the items of the given keys.
RECURSIVE Keep(_, _)
Keep(blob, keys) ==
    IF blob = <<>> THEN <<>>
    ELSE IF Head(blob)[1] \in keys THEN <<Head(blob)>> \o Keep(Tail(blob), keys)
         ELSE Keep(Tail(blob), keys)

\* ------------------------------------------------------------ state
VARIABLES
    preprocessor,    \* self.preprocessor: None, or the ColumnTransformer
    model,           \* self.model: None, or the RandomForestClassifier
    feature_names,   \* self.feature_names: None, or the list of names
    model_version,   \* self.model_version: the version tag set at construction
    disk,            \* the artifact file at the path given to save_model / load_model
    held,            \* the (X_transformed, y) the caller got from preprocess_data
    result,          \* the last call: its name, its input, what it returned or raised
    saved,           \* history: the three fields as they were when save_model wrote the file
    ppOk,            \* history: a preprocess_data call has returned on this object
    trainOk,         \* history: a train_model call has returned on this object
    loadOk,          \* history: a load_model call has returned on this object
    ppAborted,       \* history: the last preprocess_data to pass validation raised later
    trainAborted     \* history: the last train_model raised

self == <<preprocessor, model, feature_names, model_version>>
history == <<saved, ppOk, trainOk, loadOk, ppAborted, trainAborted>>
vars == <<preprocessor, model, feature_names, model_version, disk, held, result,
          saved, ppOk, trainOk, loadOk, ppAborted, trainAborted>>

NameList(names) == [kind |-> "list", names |-> names]

NoTable == [cols |-> {}, uniq |-> [c \in CatCols |-> <<>>], rows |-> 0, pos |-> 0]
NoRow == [cols |-> {}, vals |-> [c \in CatCols |-> NaN]]

\* The record of a call; the fields a call does not use keep these values.
Res(op, outcome) ==
    [op |-> op, outcome |-> outcome, warned |-> FALSE, df |-> NoTable, x |-> NoRow,
     d |-> NoData, value |-> NoValue, scored |-> NoData, key |-> ""]

Triple(m, pp, fn) == [model |-> m, preprocessor |-> pp, feature_names |-> fn]

\* __init__ (lines 42-47)
Init ==
    /\ preprocessor = None
    /\ model = None
    /\ feature_names = None
    /\ model_version = 1
    /\ disk = NoFile
    /\ held = NoData
    /\ result = Res("__init__", "ok")
    /\ saved = Triple(None, None, None)
    /\ ppOk = FALSE
    /\ trainOk = FALSE
    /\ loadOk = FALSE
    /\ ppAborted = FALSE
    /\ trainAborted = FALSE

\* A new object is constructed, at a later time; the file and the caller's data stay.
Construct ==
    /\ model_version < MaxObjects
    /\ preprocessor' = None
    /\ model' = None
    /\ feature_names' = None
    /\ model_version' = model_version + 1
    /\ result' = Res("__init__", "ok")
    /\ ppOk' = FALSE
    /\ trainOk' = FALSE
    /\ loadOk' = FALSE
    /\ ppAborted' = FALSE
    /\ trainAborted' = FALSE
    /\ UNCHANGED <<disk, held, saved>>

\* _validate_data(df), called on its own
ValidateData ==
    \E df \in ValidateTables :
        LET v == _validate_data(df)
        IN /\ result' = [Res("_validate_data", v.outcome) EXCEPT !.warned = v.warned, !.df = df]
           /\ UNCHANGED <<self, disk, held, history>>

\* preprocess_data(df)
PreprocessData(tables) ==
    \E df \in tables :
        LET v == _validate_data(df)
            r == [Res("preprocess_data", v.outcome) EXCEPT !.warned = v.warned, !.df = df]
        IN IF v.outcome # "ok"
           THEN \* line 122 raises: nothing has been assigned
                /\ result' = r
                /\ UNCHANGED <<self, disk, held, history>>
           ELSE IF "Churn" \notin df.cols
           THEN \* line 137 has assigned the new transformer, line 145 raises KeyError
                /\ preprocessor' = Unfitted
                /\ result' = [r EXCEPT !.outcome = "KeyError", !.key = "Churn"]
                /\ ppAborted' = TRUE
                /\ UNCHANGED <<model, feature_names, model_version, disk, held,
                               saved, ppOk, trainOk, loadOk, trainAborted>>
           ELSE /\ preprocessor' = Fit(df)
                /\ feature_names' = NameList(_create_feature_names(df))
                /\ held' = Data(Width(Fit(df)), df.rows, df.pos)
                /\ result' = [r EXCEPT !.d = Data(Width(Fit(df)), df.rows, df.pos)]
                /\ ppOk' = TRUE
                /\ ppAborted' = FALSE
                /\ UNCHANGED <<model, model_version, disk,
                               saved, trainOk, loadOk, trainAborted>>

\* train_model(X, y)
TrainModel ==
    /\ held # NoData
    /\ \E d \in Splits(held) :
        LET rs == fit_resample(d)
            cv == cross_val_score(rs.data)
            r  == [Res("train_model", "ok") EXCEPT !.d = d]
        IN IF rs.outcome # "ok"
           THEN \* line 174 raises: self.model is as it was
                /\ result' = [r EXCEPT !.outcome = rs.outcome]
                /\ trainAborted' = TRUE
                /\ UNCHANGED <<self, disk, held, saved, ppOk, trainOk, loadOk, ppAborted>>
           ELSE IF cv.outcome # "ok"
           THEN \* line 177 has assigned the new classifier, line 187 raises
                /\ model' = NewClassifier
                /\ result' = [r EXCEPT !.outcome = cv.outcome]
                /\ trainAborted' = TRUE
                /\ UNCHANGED <<preprocessor, feature_names, model_version, disk, held,
                               saved, ppOk, trainOk, loadOk, ppAborted>>
           ELSE /\ model' = FitClassifier(NewClassifier, rs.data)
                /\ result' = [r EXCEPT !.scored = cv.scored]
                /\ trainOk' = TRUE
                /\ trainAborted' = FALSE
                /\ UNCHANGED <<preprocessor, feature_names, model_version, disk, held,
                               saved, ppOk, loadOk, ppAborted>>

\* evaluate_model(X_test, y_test): the first step of it that raises, or "ok"
evaluate_model(m, fn, d) ==
    IF IsNone(m) THEN "AttributeError"
    ELSE IF ~m.fitted THEN "NotFittedError"
    ELSE IF d.width # m.nfeat THEN "FeatureMismatch"
    ELSE IF Minority(d) = 0 THEN "OneClassAuc"
    ELSE IF ~IsNone(fn) /\ Len(fn.names) # m.nfeat THEN "LengthMismatch"
    ELSE "ok"

EvaluateModel ==
    /\ held # NoData
    /\ \E d \in Splits(held) :
        LET o == evaluate_model(model, feature_names, d)
        IN /\ result' = [Res("evaluate_model", o) EXCEPT
                            !.d = d,
                            !.scored = IF o \in {"ok", "OneClassAuc", "LengthMismatch"}
                                       THEN d ELSE NoData]
           /\ UNCHANGED <<self, disk, held, history>>

\* The dict with the names left out of it.
model_info_without_names(m, pp, fn, version) ==
    [k \in Range(Fields) |->
        CASE k = "model" -> m
          [] k = "preprocessor" -> pp
          [] k = "feature_names" -> None
          [] k = "version" -> [kind |-> "version", tag |-> version]
          [] k = "timestamp" -> [kind |-> "timestamp"]]

\* the dict save_model writes (lines 264-270)
model_info(m, pp, fn, version) ==
    [k \in Range(Fields) |->
        CASE k = "model" -> m
          [] k = "preprocessor" -> pp
          [] k = "feature_names" -> fn
          [] k = "version" -> [kind |-> "version", tag |-> version]
          [] k = "timestamp" -> [kind |-> "timestamp"]]

\* save_model(filepath)
SaveModel ==
    IF NotFittedGuard(model, preprocessor)
    THEN /\ result' = Res("save_model", "ValueError")
         /\ UNCHANGED <<self, disk, held, history>>
    ELSE /\ disk' = Dump(model_info(model, preprocessor, feature_names, model_version))
         /\ saved' = Triple(model, preprocessor, feature_names)
         /\ result' = Res("save_model", "ok")
         /\ UNCHANGED <<self, held, ppOk, trainOk, loadOk, ppAborted, trainAborted>>

\* The first of the keys load_model reads, in the order it reads them (lines
\* 277-280), that the dict does not hold; "" when it holds them all.
ReadOrder == <<"model", "preprocessor", "feature_names", "version">>
RECURSIVE FirstMissing(_, _)
FirstMissing(keys, info) ==
    IF keys = <<>> THEN ""
    ELSE IF Head(keys) \notin DOMAIN info THEN Head(keys)
         ELSE FirstMissing(Tail(keys), info)

\* The assignments of load_model that run before it returns or raises KeyError.
Assigned(info, k) ==
    LET miss == FirstMissing(ReadOrder, info)
        pos(key) == CHOOSE i \in 1..Len(ReadOrder) : ReadOrder[i] = key
    IN miss = "" \/ pos(k) < pos(miss)

\* load_model(filepath): the file holds the artifact, or only some of its items
LoadModel ==
    IF Len(disk) = 0
    THEN /\ result' = Res("load_model", "FileNotFoundError")
         /\ UNCHANGED <<self, disk, held, history>>
    ELSE \E keys \in {Range(Fields)} \cup {Range(Fields) \ {k} : k \in Range(Fields)} :
        LET info == Load(Keep(disk, keys))
            miss == FirstMissing(ReadOrder, info)
        IN /\ model' = IF Assigned(info, "model") THEN info["model"] ELSE model
           /\ preprocessor' = IF Assigned(info, "preprocessor")
                              THEN info["preprocessor"] ELSE preprocessor
           /\ feature_names' = IF Assigned(info, "feature_names")
                               THEN info["feature_names"] ELSE feature_names
           /\ result' = [Res("load_model", IF miss = "" THEN "ok" ELSE "KeyError")
                            EXCEPT !.key = miss]
           /\ loadOk' = (loadOk \/ miss = "")
           /\ ppAborted' = (ppAborted /\ miss # "")
           /\ trainAborted' = (trainAborted /\ miss # "")
           /\ UNCHANGED <<model_version, disk, held, saved, ppOk, trainOk>>

\* predict(X)
Predict(rows) ==
    \E X \in rows :
        LET p == predict(model, preprocessor, X)
        IN /\ result' = [Res("predict", p.outcome) EXCEPT !.x = X, !.value = p.value]
           /\ UNCHANGED <<self, disk, held, history>>

\* Every operation, on a few tables.
Next ==
    \/ Construct
    \/ PreprocessData(StoreTables)
    \/ TrainModel
    \/ EvaluateModel
    \/ SaveModel
    \/ LoadModel
    \/ Predict(StoreRows)

Spec == Init /\ [][Next]_vars

\* Fitting and inference without the artifact file, on more tables.
NextFit ==
    \/ Construct
    \/ PreprocessData(Tables)
    \/ TrainModel
    \/ EvaluateModel
    \/ Predict(RowChoicesX)

SpecFit == Init /\ [][NextFit]_vars

\* _validate_data alone, over the tables around its thresholds.
NextValidate == ValidateData

SpecValidate == Init /\ [][NextValidate]_vars

\* ------------------------------------------------------------ properties
Fitted(x) == ~IsNone(x) /\ x.fitted

PreprocessReturned == result.op = "preprocess_data" /\ result.outcome = "ok"

Min(a, b) == IF a <= b THEN a ELSE b

\* C1: after a preprocess_data call that returns, the matrix of the fitted
\* preprocessor has as many columns as feature_names has names.
C1_ColumnCountEqualsNames ==
    PreprocessReturned =>
        /\ Len(feature_names.names) = Width(preprocessor)
        /\ Len(feature_names.names) = result.d.width

\* C2: the i-th stored name names what the i-th column of the matrix encodes:
\* the same column, and for an indicator the same category value (a NaN in the
\* name standing for the 'missing' value the imputer writes for it).
C2_NamesAlignedWithColumns ==
    PreprocessReturned =>
        LET names == feature_names.names
            out   == OutColumns(preprocessor)
        IN \A i \in 1..Min(Len(names), Len(out)) :
               /\ names[i].col = out[i].col
               /\ Impute(names[i].val) = out[i].val \/ names[i].val = out[i].val

\* C3: while no fit (preprocess_data and train_model) and no load_model has
\* completed on the object, predict raises the not-fitted error on every input
\* (the guard's ValueError, or the library's NotFittedError), and predict
\* returns a value only when model and preprocessor are both set.
C3_PredictNeedsFitOrLoad ==
    \A X \in RowChoicesX :
        LET p == predict(model, preprocessor, X)
        IN /\ (~(ppOk /\ trainOk) /\ ~loadOk) => p.outcome \in {"NotFitted", "NotFittedError"}
           /\ p.outcome = "ok" => ~IsNone(model) /\ ~IsNone(preprocessor)

\* C4: after a preprocess_data or train_model call that passed validation and
\* then raised, and until a later one returns or a load completes, the guard of
\* predict and save_model rejects the object.
C4_AbortedFitIsNotFitted ==
    (ppAborted \/ trainAborted) => NotFittedGuard(model, preprocessor)

\* C5: a load_model call that fails on a record missing a required field (here
\* a record of a trained object's artifact) leaves model, preprocessor and
\* feature_names as they were.
C5_LoadIsAtomic ==
    [][(/\ result'.op = "load_model" /\ result'.outcome # "ok"
        /\ Fitted(saved.model) /\ Fitted(saved.preprocessor)) =>
          /\ model' = model
          /\ preprocessor' = preprocessor
          /\ feature_names' = feature_names]_vars

\* C6: save_model leaves the three fields as they were, and a load_model that
\* returns sets them to what save_model wrote, so that predict returns on every
\* input what the saved object returned.
C6_SaveLoadRoundTrip ==
    /\ (result.op = "save_model" /\ result.outcome = "ok") =>
           Triple(model, preprocessor, feature_names) = saved
    /\ (result.op = "load_model" /\ result.outcome = "ok") =>
           /\ Triple(model, preprocessor, feature_names) = saved
           /\ \A X \in RowChoicesX :
                  predict(model, preprocessor, X)
                      = predict(saved.model, saved.preprocessor, X)

\* A freshly constructed object has loaded the artifact of a trained one and
\* predicts with it.
C6_Witness ==
    /\ result.op = "load_model" /\ result.outcome = "ok"
    /\ model_version > 1 /\ ~ppOk /\ ~trainOk
    /\ Fitted(model) /\ Fitted(preprocessor)
    /\ predict(model, preprocessor, BaseRow).outcome = "ok"

\* A value of a categorical cell that the fitted encoder has no category for.
Unseen(pp, X) ==
    \E c \in CatCols : X.vals[c] # NaN /\ X.vals[c] \notin Range(pp.categories[c])

\* C7: predict on a row with every column, one categorical cell holding a value
\* not seen at fit time, returns, the row encoded with zero in every indicator
\* of that column.
C7_UnseenCategoryIsReference ==
    (/\ result.op = "predict"
     /\ Fitted(model) /\ Fitted(preprocessor)
     /\ model.nfeat = Width(preprocessor)
     /\ (NumCols \cup CatCols) \subseteq result.x.cols
     /\ Unseen(preprocessor, result.x))
        => /\ result.outcome = "ok"
           /\ \A i \in 1..Len(result.value.row) :
                  LET col == OutColumns(preprocessor)[i]
                  IN (col.val # NoSuffix
                        /\ result.x.vals[col.col] \notin Range(preprocessor.categories[col.col]))
                         => result.value.row[i] = 0

\* C8: on a table with every required column _validate_data raises the
\* insufficient-data error exactly when the table has fewer than 100 rows;
\* with 99 rows it raises, with 100 it returns.
C8_MinimumRowCount ==
    (result.op = "_validate_data" /\ RequiredColumns \subseteq result.df.cols) =>
        /\ (result.outcome = "InsufficientData") <=> (result.df.rows < 100)
        /\ (result.outcome = "ok") <=> (result.df.rows >= 100)
        /\ result.df.rows = 99 => result.outcome = "InsufficientData"
        /\ result.df.rows = 100 => result.outcome = "ok"

\* _validate_data has returned on a table of exactly 100 rows.
C8_Witness ==
    /\ result.op = "_validate_data"
    /\ RequiredColumns \subseteq result.df.cols
    /\ result.df.rows = 100
    /\ result.outcome = "ok"

\* C9: on a table with every required column, the labels and at least 100 rows,
\* preprocess_data returns and warns exactly when the rate of 'Yes' is below 5%
\* or above 95%, and train_model on the matrix it returned for a table with such
\* a rate returns a model.
C9_ImbalanceIsNotFatal ==
    /\ (/\ result.op = "preprocess_data"
        /\ RequiredColumns \cup {"Churn"} \subseteq result.df.cols
        /\ result.df.rows >= 100)
           => /\ result.outcome = "ok"
              /\ result.warned <=> SevereImbalance(result.df)
    /\ (result.op = "train_model" /\ result.d = held /\ SevereImbalance(held))
           => result.outcome = "ok" /\ Fitted(model)

\* C10: no data that a model is scored on holds synthetic rows.
C10_NoSyntheticRowsScored == result.scored.synth = 0
====
